---------------------------- MODULE Spec2Model ----------------------------
(***************************************************************************)
(* Dive-table resolution of scuba-tools (src/js/script.js, the revision    *)
(* that starts at line 519: ranged surface-interval table).                *)
(*                                                                         *)
(* Encoding of JavaScript values:                                          *)
(*   - a pressure group is a string "A".."K"; a null group is Null;        *)
(*   - a time string "h:mm" is the pair <<h, mm>>, the string '--' is Dash;*)
(*   - in numeric fields the string 'N/L' is NL, null is NullNum and NaN   *)
(*     is NaN (all three are negative, no table value is);                 *)
(*   - an argument handed to parseInt is kept in tenths of a minute;       *)
(*   - the value a function returns is kept in ret: the result object of   *)
(*     getSingleDiveInfo and getRepetitiveDiveInfo as a record, a returned *)
(*     group as [value |-> group];                                         *)
(*   - the contents of the three table objects are kept in tables.         *)
(***************************************************************************)
EXTENDS Integers, Sequences, FiniteSets, TLC

VARIABLES pc, call, ret, tables, diveState, table3Listeners

vars == <<pc, call, ret, tables, diveState, table3Listeners>>

(* ------------------------------ bounds -------------------------------- *)

MaxDepth == 135

MaxBottomTime == 360

MaxHours == 12

MaxActualTenths == 15

MaxResidual == 55

MaxO2 == 101

MaxDaltonSteps == 12

MaxPO2Tenths == 20

MaxUiRows == 1

MaxUiGroups == 2

(* --------------------------- value encoding --------------------------- *)

Null == "null"

NL == -1

NullNum == -2

NaN == -3

Dash == << >>

NoDepth == -1

groups == <<"A", "B", "C", "D", "E", "F", "G", "H", "I", "J", "K">>

GroupSet == {groups[i] : i \in 1..Len(groups)}

Severity(g) == CHOOSE i \in 1..Len(groups) : groups[i] = g

(* Ascending sequence of a finite set of integers: the order in which     *)
(* Object.keys lists integer keys, and the result of sort((a,b) => a-b).  *)
RECURSIVE SortedSeq(_)
SortedSeq(S) ==
    IF S = {} THEN << >>
    ELSE LET m == CHOOSE x \in S : \A y \in S : x <= y
         IN  <<m>> \o SortedSeq(S \ {m})

(* ------------------------------ tables -------------------------------- *)

navyTable1Data ==
    10 :> [maxNDL |-> 300, timeGroups |-> <<<<60, "A">>, <<120, "B">>, <<210, "C">>, <<300, "D">>>>] @@
    15 :> [maxNDL |-> 300, timeGroups |-> <<<<35, "A">>, <<70, "B">>, <<110, "C">>, <<160, "D">>, <<225, "E">>, <<350, "F">>>>] @@
    20 :> [maxNDL |-> 325, timeGroups |-> <<<<25, "A">>, <<50, "B">>, <<75, "C">>, <<100, "D">>, <<135, "E">>, <<180, "F">>, <<240, "G">>, <<325, "H">>>>] @@
    25 :> [maxNDL |-> 245, timeGroups |-> <<<<20, "A">>, <<35, "B">>, <<55, "C">>, <<75, "D">>, <<100, "E">>, <<125, "F">>, <<160, "G">>, <<195, "H">>, <<245, "I">>>>] @@
    30 :> [maxNDL |-> 205, timeGroups |-> <<<<15, "A">>, <<30, "B">>, <<45, "C">>, <<60, "D">>, <<75, "E">>, <<95, "F">>, <<120, "G">>, <<145, "H">>, <<170, "I">>, <<205, "J">>>>] @@
    35 :> [maxNDL |-> 160, timeGroups |-> <<<<5, "A">>, <<15, "B">>, <<25, "C">>, <<40, "D">>, <<50, "E">>, <<60, "F">>, <<80, "G">>, <<100, "H">>, <<120, "I">>, <<140, "J">>, <<160, "K">>>>] @@
    40 :> [maxNDL |-> 130, timeGroups |-> <<<<5, "A">>, <<15, "B">>, <<25, "C">>, <<30, "D">>, <<40, "E">>, <<50, "F">>, <<70, "G">>, <<80, "H">>, <<100, "I">>, <<110, "J">>, <<130, "K">>>>] @@
    50 :> [maxNDL |-> 70, timeGroups |-> <<<<10, "B">>, <<15, "C">>, <<25, "D">>, <<30, "E">>, <<40, "F">>, <<50, "G">>, <<60, "H">>, <<70, "I">>>>] @@
    60 :> [maxNDL |-> 50, timeGroups |-> <<<<10, "B">>, <<15, "C">>, <<20, "D">>, <<25, "E">>, <<30, "F">>, <<40, "G">>, <<50, "H">>>>] @@
    70 :> [maxNDL |-> 40, timeGroups |-> <<<<5, "B">>, <<10, "C">>, <<15, "D">>, <<20, "E">>, <<30, "F">>, <<35, "G">>, <<40, "H">>>>] @@
    80 :> [maxNDL |-> 30, timeGroups |-> <<<<5, "B">>, <<10, "C">>, <<15, "D">>, <<20, "E">>, <<25, "F">>, <<30, "G">>>>] @@
    90 :> [maxNDL |-> 25, timeGroups |-> <<<<5, "B">>, <<10, "C">>, <<12, "D">>, <<15, "E">>, <<20, "F">>, <<25, "G">>>>] @@
    100 :> [maxNDL |-> 20, timeGroups |-> <<<<5, "B">>, <<7, "C">>, <<10, "D">>, <<15, "E">>, <<20, "F">>>>] @@
    110 :> [maxNDL |-> 15, timeGroups |-> <<<<5, "B">>, <<10, "C">>, <<13, "D">>, <<15, "E">>>>] @@
    120 :> [maxNDL |-> 10, timeGroups |-> <<<<5, "C">>, <<10, "D">>>>] @@
    130 :> [maxNDL |-> 5, timeGroups |-> <<<<5, "D">>>>]

navyTable2Data ==
    "K" :> <<<<"K", <<0, 10>>, <<0, 28>>>>,
             <<"J", <<0, 29>>, <<0, 49>>>>,
             <<"I", <<0, 50>>, <<1, 11>>>>,
             <<"H", <<1, 12>>, <<1, 35>>>>,
             <<"G", <<1, 36>>, <<2, 3>>>>,
             <<"F", <<2, 4>>, <<2, 38>>>>,
             <<"E", <<2, 39>>, <<3, 21>>>>,
             <<"D", <<3, 22>>, <<4, 19>>>>,
             <<"C", <<4, 20>>, <<5, 48>>>>,
             <<"B", <<5, 49>>, <<8, 58>>>>,
             <<"A", <<8, 59>>, <<11, 59>>>>,
             <<"None", <<12, 0>>, Dash>>>> @@
    "J" :> <<<<"J", <<0, 10>>, <<0, 31>>>>,
             <<"I", <<0, 32>>, <<0, 54>>>>,
             <<"H", <<0, 55>>, <<1, 19>>>>,
             <<"G", <<1, 20>>, <<1, 47>>>>,
             <<"F", <<1, 48>>, <<2, 20>>>>,
             <<"E", <<2, 21>>, <<3, 4>>>>,
             <<"D", <<3, 5>>, <<4, 2>>>>,
             <<"C", <<4, 3>>, <<5, 40>>>>,
             <<"B", <<5, 41>>, <<8, 50>>>>,
             <<"A", <<8, 51>>, <<11, 59>>>>,
             <<"None", <<12, 0>>, Dash>>>> @@
    "I" :> <<<<"I", <<0, 10>>, <<0, 33>>>>,
             <<"H", <<0, 34>>, <<0, 59>>>>,
             <<"G", <<1, 0>>, <<1, 29>>>>,
             <<"F", <<1, 30>>, <<2, 2>>>>,
             <<"E", <<2, 3>>, <<2, 44>>>>,
             <<"D", <<2, 45>>, <<3, 43>>>>,
             <<"C", <<3, 44>>, <<5, 12>>>>,
             <<"B", <<5, 13>>, <<8, 21>>>>,
             <<"A", <<8, 22>>, <<11, 59>>>>,
             <<"None", <<12, 0>>, Dash>>>> @@
    "H" :> <<<<"H", <<0, 10>>, <<0, 36>>>>,
             <<"G", <<0, 37>>, <<1, 6>>>>,
             <<"F", <<1, 7>>, <<1, 41>>>>,
             <<"E", <<1, 42>>, <<2, 23>>>>,
             <<"D", <<2, 24>>, <<3, 20>>>>,
             <<"C", <<3, 21>>, <<4, 49>>>>,
             <<"B", <<4, 50>>, <<7, 59>>>>,
             <<"A", <<8, 0>>, <<11, 59>>>>,
             <<"None", <<12, 0>>, Dash>>>> @@
    "G" :> <<<<"G", <<0, 10>>, <<0, 40>>>>,
             <<"F", <<0, 41>>, <<1, 15>>>>,
             <<"E", <<1, 16>>, <<1, 59>>>>,
             <<"D", <<2, 0>>, <<2, 58>>>>,
             <<"C", <<2, 59>>, <<4, 25>>>>,
             <<"B", <<4, 26>>, <<7, 35>>>>,
             <<"A", <<7, 36>>, <<11, 59>>>>,
             <<"None", <<12, 0>>, Dash>>>> @@
    "F" :> <<<<"F", <<0, 10>>, <<0, 45>>>>,
             <<"E", <<0, 46>>, <<1, 29>>>>,
             <<"D", <<1, 30>>, <<2, 28>>>>,
             <<"C", <<2, 29>>, <<3, 57>>>>,
             <<"B", <<3, 58>>, <<7, 5>>>>,
             <<"A", <<7, 6>>, <<11, 59>>>>,
             <<"None", <<12, 0>>, Dash>>>> @@
    "E" :> <<<<"E", <<0, 10>>, <<0, 54>>>>,
             <<"D", <<0, 55>>, <<1, 57>>>>,
             <<"C", <<1, 58>>, <<3, 24>>>>,
             <<"B", <<3, 25>>, <<6, 34>>>>,
             <<"A", <<6, 35>>, <<11, 59>>>>,
             <<"None", <<12, 0>>, Dash>>>> @@
    "D" :> <<<<"D", <<0, 10>>, <<1, 9>>>>,
             <<"C", <<1, 10>>, <<2, 38>>>>,
             <<"B", <<2, 39>>, <<5, 48>>>>,
             <<"A", <<5, 49>>, <<11, 59>>>>,
             <<"None", <<12, 0>>, Dash>>>> @@
    "C" :> <<<<"C", <<0, 10>>, <<1, 39>>>>,
             <<"B", <<1, 40>>, <<4, 49>>>>,
             <<"A", <<4, 50>>, <<11, 59>>>>,
             <<"None", <<12, 0>>, Dash>>>> @@
    "B" :> <<<<"B", <<0, 10>>, <<3, 20>>>>,
             <<"A", <<3, 21>>, <<11, 59>>>>,
             <<"None", <<12, 0>>, Dash>>>> @@
    "A" :> <<<<"A", <<0, 10>>, <<11, 59>>>>,
             <<"None", <<12, 0>>, Dash>>>>

navyTable3Data ==
    10 :> ("A" :> <<39, NL>> @@ "B" :> <<88, NL>> @@ "C" :> <<159, NL>> @@ "D" :> <<279, NL>> @@
           "E" :> <<NL, NL>> @@ "F" :> <<NL, NL>> @@ "G" :> <<NL, NL>> @@ "H" :> <<NL, NL>> @@
           "I" :> <<NL, NL>> @@ "J" :> <<NL, NL>> @@ "K" :> <<NL, NL>>) @@
    20 :> ("A" :> <<18, NL>> @@ "B" :> <<39, NL>> @@ "C" :> <<62, NL>> @@ "D" :> <<88, NL>> @@
           "E" :> <<120, NL>> @@ "F" :> <<159, NL>> @@ "G" :> <<208, NL>> @@ "H" :> <<279, NL>> @@
           "I" :> <<399, NL>> @@ "J" :> <<NL, NL>> @@ "K" :> <<NL, NL>>) @@
    30 :> ("A" :> <<12, 193>> @@ "B" :> <<25, 180>> @@ "C" :> <<39, 166>> @@ "D" :> <<54, 151>> @@
           "E" :> <<70, 135>> @@ "F" :> <<88, 117>> @@ "G" :> <<109, 96>> @@ "H" :> <<132, 73>> @@
           "I" :> <<159, 46>> @@ "J" :> <<190, 15>> @@ "K" :> <<NL, 0>>) @@
    40 :> ("A" :> <<7, 123>> @@ "B" :> <<17, 113>> @@ "C" :> <<25, 105>> @@ "D" :> <<37, 93>> @@
           "E" :> <<49, 81>> @@ "F" :> <<61, 69>> @@ "G" :> <<73, 57>> @@ "H" :> <<87, 43>> @@
           "I" :> <<101, 29>> @@ "J" :> <<116, 14>> @@ "K" :> <<138, 0>>) @@
    50 :> ("A" :> <<6, 64>> @@ "B" :> <<13, 57>> @@ "C" :> <<21, 49>> @@ "D" :> <<29, 41>> @@
           "E" :> <<38, 32>> @@ "F" :> <<47, 23>> @@ "G" :> <<56, 14>> @@ "H" :> <<66, 4>> @@
           "I" :> <<NL, 0>> @@ "J" :> <<NL, 0>> @@ "K" :> <<NL, 0>>) @@
    60 :> ("A" :> <<5, 45>> @@ "B" :> <<11, 39>> @@ "C" :> <<17, 33>> @@ "D" :> <<24, 26>> @@
           "E" :> <<30, 20>> @@ "F" :> <<36, 14>> @@ "G" :> <<44, 6>> @@ "H" :> <<NL, 0>> @@
           "I" :> <<NL, 0>> @@ "J" :> <<NL, 0>> @@ "K" :> <<NL, 0>>) @@
    70 :> ("A" :> <<4, 36>> @@ "B" :> <<9, 31>> @@ "C" :> <<15, 25>> @@ "D" :> <<20, 20>> @@
           "E" :> <<26, 14>> @@ "F" :> <<31, 9>> @@ "G" :> <<37, 3>> @@ "H" :> <<NL, 0>> @@
           "I" :> <<NL, 0>> @@ "J" :> <<NL, 0>> @@ "K" :> <<NL, 0>>) @@
    80 :> ("A" :> <<4, 26>> @@ "B" :> <<8, 22>> @@ "C" :> <<13, 17>> @@ "D" :> <<18, 12>> @@
           "E" :> <<23, 7>> @@ "F" :> <<28, 2>> @@ "G" :> <<NL, 0>> @@ "H" :> <<NL, 0>> @@
           "I" :> <<NL, 0>> @@ "J" :> <<NL, 0>> @@ "K" :> <<NL, 0>>) @@
    90 :> ("A" :> <<3, 22>> @@ "B" :> <<7, 18>> @@ "C" :> <<11, 14>> @@ "D" :> <<16, 9>> @@
           "E" :> <<20, 5>> @@ "F" :> <<24, 1>> @@ "G" :> <<NL, 0>> @@ "H" :> <<NL, 0>> @@
           "I" :> <<NL, 0>> @@ "J" :> <<NL, 0>> @@ "K" :> <<NL, 0>>) @@
    100 :> ("A" :> <<3, 17>> @@ "B" :> <<7, 13>> @@ "C" :> <<10, 10>> @@ "D" :> <<14, 6>> @@
           "E" :> <<18, 2>> @@ "F" :> <<NL, 0>> @@ "G" :> <<NL, 0>> @@ "H" :> <<NL, 0>> @@
           "I" :> <<NL, 0>> @@ "J" :> <<NL, 0>> @@ "K" :> <<NL, 0>>) @@
    110 :> ("A" :> <<3, 12>> @@ "B" :> <<6, 9>> @@ "C" :> <<9, 6>> @@ "D" :> <<12, 3>> @@
           "E" :> <<15, 0>> @@ "F" :> <<NL, 0>> @@ "G" :> <<NL, 0>> @@ "H" :> <<NL, 0>> @@
           "I" :> <<NL, 0>> @@ "J" :> <<NL, 0>> @@ "K" :> <<NL, 0>>) @@
    120 :> ("A" :> <<3, 7>> @@ "B" :> <<6, 4>> @@ "C" :> <<9, 1>> @@ "D" :> <<NL, 0>> @@
           "E" :> <<NL, 0>> @@ "F" :> <<NL, 0>> @@ "G" :> <<NL, 0>> @@ "H" :> <<NL, 0>> @@
           "I" :> <<NL, 0>> @@ "J" :> <<NL, 0>> @@ "K" :> <<NL, 0>>) @@
    130 :> ("A" :> <<3, 2>> @@ "B" :> <<NL, 0>> @@ "C" :> <<NL, 0>> @@ "D" :> <<NL, 0>> @@
           "E" :> <<NL, 0>> @@ "F" :> <<NL, 0>> @@ "G" :> <<NL, 0>> @@ "H" :> <<NL, 0>> @@
           "I" :> <<NL, 0>> @@ "J" :> <<NL, 0>> @@ "K" :> <<NL, 0>>)


(* The three table objects as the script defines them at load. *)
InitialTables ==
    [navyTable1 |-> navyTable1Data,
     navyTable2 |-> navyTable2Data,
     navyTable3 |-> navyTable3Data]

(* The const bindings: each names its table object, whose current contents *)
(* are kept in the variable tables.                                        *)
navyTable1 == tables.navyTable1

(* A table-2 row typed with a one-minute hole between two ranges. *)
navyTable2_Gap ==
    [navyTable2Data EXCEPT !["K"] = [@ EXCEPT ![2] = <<"J", <<0, 30>>, <<0, 49>>>>]]

navyTable2 == tables.navyTable2

(* A table-3 row edited by hand with an adjusted limit left beside 'N/L'. *)
navyTable3_BadEntry ==
    [navyTable3Data EXCEPT ![30] = [@ EXCEPT !["K"] = <<NL, 15>>]]

navyTable3 == tables.navyTable3

(* ------------------------- depth normalisation ------------------------ *)

Table1Depths == SortedSeq(DOMAIN navyTable1)

RECURSIVE ScanDepths_Strict(_, _, _)
ScanDepths_Strict(depths, depth, i) ==
    IF i > Len(depths) THEN NoDepth
    ELSE IF depth < depths[i] THEN depths[i]
    ELSE ScanDepths_Strict(depths, depth, i + 1)

RECURSIVE ScanDepths(_, _, _)
ScanDepths(depths, depth, i) ==
    IF i > Len(depths) THEN NoDepth
    ELSE IF depth <= depths[i] THEN depths[i]
    ELSE ScanDepths(depths, depth, i + 1)

findClosestDepth(depth) ==
    LET depths == Table1Depths
    IN  IF depth < depths[1] THEN depths[1]
        ELSE IF depth > depths[Len(depths)] THEN NoDepth
        ELSE ScanDepths(depths, depth, 1)

(* ----------------------------- single dive ---------------------------- *)

(* JavaScript comparisons: any comparison with NaN is false. *)
JsGt_Inverted(a, b) == a # NaN /\ a < b

JsGt(a, b) == a # NaN /\ a > b

JsLe(a, b) == a # NaN /\ a <= b

Table1Times ==
    [d \in DOMAIN navyTable1 |->
        SortedSeq({navyTable1[d].timeGroups[i][1] :
                      i \in 1..Len(navyTable1[d].timeGroups)})]

GroupAt(timeGroups, t) ==
    timeGroups[CHOOSE i \in 1..Len(timeGroups) : timeGroups[i][1] = t][2]

ThresholdReached_Strict(bottomTime, t) == bottomTime # NaN /\ bottomTime < t

ThresholdReached(bottomTime, t) == JsLe(bottomTime, t)

RECURSIVE ScanTimes(_, _, _, _)
ScanTimes(times, timeGroups, bottomTime, i) ==
    IF i > Len(times) THEN Null
    ELSE IF ThresholdReached(bottomTime, times[i])
         THEN GroupAt(timeGroups, times[i])
         ELSE ScanTimes(times, timeGroups, bottomTime, i + 1)

getSingleDiveInfo(depth, bottomTime) ==
    LET tableDepth == findClosestDepth(depth)
    IN  IF tableDepth = NoDepth
        THEN [noDecoLimit |-> 0, pressureGroup |-> Null,
              isExceeded |-> TRUE, message |-> "depthExceedsTable"]
        ELSE LET maxNDL == navyTable1[tableDepth].maxNDL
                 timeGroups == navyTable1[tableDepth].timeGroups
             IN  IF JsGt(bottomTime, maxNDL)
                 THEN [noDecoLimit |-> maxNDL, pressureGroup |-> Null,
                       isExceeded |-> TRUE, message |-> "timeExceedsNDL"]
                 ELSE [noDecoLimit |-> maxNDL,
                       pressureGroup |->
                           ScanTimes(Table1Times[tableDepth], timeGroups,
                                     bottomTime, 1),
                       isExceeded |-> FALSE, message |-> "ok"]

(* --------------------------- surface interval ------------------------- *)

parseTimeToMinutes(timeStr) == timeStr[1] * 60 + timeStr[2]

InRange(surfaceIntervalMinutes, minTime, maxTime) ==
    /\ surfaceIntervalMinutes >= parseTimeToMinutes(minTime)
    /\ \/ maxTime = Dash
       \/ surfaceIntervalMinutes < parseTimeToMinutes(maxTime)

RECURSIVE ScanRanges_KeepNone(_, _, _)
ScanRanges_KeepNone(entries, surfaceIntervalMinutes, i) ==
    IF i > Len(entries) THEN Null
    ELSE IF InRange(surfaceIntervalMinutes, entries[i][2], entries[i][3])
         THEN entries[i][1]
         ELSE ScanRanges_KeepNone(entries, surfaceIntervalMinutes, i + 1)

RECURSIVE ScanRanges(_, _, _)
ScanRanges(entries, surfaceIntervalMinutes, i) ==
    IF i > Len(entries) THEN Null
    ELSE IF InRange(surfaceIntervalMinutes, entries[i][2], entries[i][3])
         THEN (IF entries[i][1] = "None" THEN Null ELSE entries[i][1])
         ELSE ScanRanges(entries, surfaceIntervalMinutes, i + 1)

getNewPressureGroup(currentGroup, surfaceInterval) ==
    IF currentGroup \notin DOMAIN navyTable2 THEN Null
    ELSE ScanRanges(navyTable2[currentGroup],
                    parseTimeToMinutes(surfaceInterval), 1)

(* ---------------------------- repetitive dive ------------------------- *)

HasTable3Entry(tableDepth, pressureGroup) ==
    /\ tableDepth # NoDepth
    /\ tableDepth \in DOMAIN navyTable3
    /\ pressureGroup \in DOMAIN navyTable3[tableDepth]

DiveNotPossible_RntOnly(rnt, andl) == rnt = NL

DiveNotPossible(rnt, andl) == rnt = NL \/ andl = 0

getRepetitiveDiveInfo_Swapped(pressureGroup, depth) ==
    LET tableDepth == findClosestDepth(depth)
    IN  IF ~HasTable3Entry(tableDepth, pressureGroup)
        THEN [residualNitrogenTime |-> NullNum, adjustedNoDecoLimit |-> NullNum,
              isExceeded |-> TRUE, message |-> "invalid"]
        ELSE LET rnt == navyTable3[tableDepth][pressureGroup][2]
                 andl == navyTable3[tableDepth][pressureGroup][1]
             IN  [residualNitrogenTime |-> rnt, adjustedNoDecoLimit |-> andl,
                  isExceeded |-> DiveNotPossible(rnt, andl),
                  message |-> IF DiveNotPossible(rnt, andl)
                              THEN "notRecommended" ELSE "ok"]

getRepetitiveDiveInfo(pressureGroup, depth) ==
    LET tableDepth == findClosestDepth(depth)
    IN  IF ~HasTable3Entry(tableDepth, pressureGroup)
        THEN [residualNitrogenTime |-> NullNum, adjustedNoDecoLimit |-> NullNum,
              isExceeded |-> TRUE, message |-> "invalid"]
        ELSE LET rnt == navyTable3[tableDepth][pressureGroup][1]
                 andl == navyTable3[tableDepth][pressureGroup][2]
             IN  IF DiveNotPossible(rnt, andl)
                 THEN [residualNitrogenTime |-> rnt, adjustedNoDecoLimit |-> andl,
                       isExceeded |-> TRUE, message |-> "notRecommended"]
                 ELSE [residualNitrogenTime |-> rnt, adjustedNoDecoLimit |-> andl,
                       isExceeded |-> FALSE, message |-> "ok"]

(* ------------------------- final pressure group ----------------------- *)

(* parseInt of a value kept in tenths of a minute; 'N/L' parses to NaN. *)
parseInt(x) == IF x \in {NL, NaN, NullNum} THEN NaN ELSE x \div 10

JsAdd(a, b) == IF a = NaN \/ b = NaN THEN NaN ELSE a + b

getFinalPressureGroup(depth, actualBottomTime, residualNitrogenTime) ==
    LET tableDepth == findClosestDepth(depth)
        totalBottomTime ==
            JsAdd(parseInt(actualBottomTime), parseInt(residualNitrogenTime))
    IN  getSingleDiveInfo(tableDepth, totalBottomTime).pressureGroup

(* ---------------------- minimum surface interval --------------------- *)

(* A time string that is null. *)
NullTime == <<"null">>

(* !x for a group argument: the empty string and null are falsy. *)
Falsy(g) == g \in {"", Null}

(* groups.indexOf(g): 0-based position, -1 when absent. *)
IndexOf(g) ==
    IF g \in GroupSet THEN Severity(g) - 1 ELSE -1

HasKey(row, key) == \E i \in 1..Len(row) : row[i][1] = key

RowEntry(row, key) == row[CHOOSE i \in 1..Len(row) : row[i][1] = key]

TargetReachable_Strict(targetIndex, startIndex) == targetIndex < startIndex

TargetReachable(targetIndex, startIndex) == targetIndex <= startIndex

calculateMinimumSurfaceInterval_Maximum(startGroup, targetGroup) ==
    IF Falsy(startGroup) \/ Falsy(targetGroup) THEN NullTime
    ELSE LET startIndex == IndexOf(startGroup)
             targetIndex == IndexOf(targetGroup)
         IN  IF /\ TargetReachable(targetIndex, startIndex)
                /\ startGroup \in DOMAIN navyTable2
                /\ HasKey(navyTable2[startGroup], targetGroup)
             THEN RowEntry(navyTable2[startGroup], targetGroup)[3]
             ELSE NullTime

calculateMinimumSurfaceInterval(startGroup, targetGroup) ==
    IF Falsy(startGroup) \/ Falsy(targetGroup) THEN NullTime
    ELSE LET startIndex == IndexOf(startGroup)
             targetIndex == IndexOf(targetGroup)
         IN  IF /\ TargetReachable(targetIndex, startIndex)
                /\ startGroup \in DOMAIN navyTable2
                /\ HasKey(navyTable2[startGroup], targetGroup)
             THEN RowEntry(navyTable2[startGroup], targetGroup)[2]
             ELSE NullTime

(* ------------------------------ arithmetic ---------------------------- *)

(* A JavaScript number is the pair <<n, d>> standing for n / d in lowest    *)
(* terms with d > 0; d = 0 encodes the non-finite values: <<1, 0>> is       *)
(* Infinity, <<-1, 0>> is -Infinity and <<0, 0>> is NaN.  Results are exact *)
(* rationals: binary rounding error and the sign of zero are not modelled.  *)
Infinity == <<1, 0>>

NotANumber == <<0, 0>>

Undefined == <<"undefined">>

Abs(x) == IF x < 0 THEN -x ELSE x

Sign(x) == IF x > 0 THEN 1 ELSE IF x < 0 THEN -1 ELSE 0

RECURSIVE GCD(_, _)
GCD(a, b) == IF b = 0 THEN a ELSE GCD(b, a % b)

Norm(n, d) ==
    IF d = 0 THEN <<Sign(n), 0>>
    ELSE LET g == GCD(Abs(n), Abs(d))
         IN  <<(Sign(d) * Sign(n)) * (Abs(n) \div g), Abs(d) \div g>>

Num(i) == <<i, 1>>

IsNaN(a) == a = NotANumber

IsFinite(a) == a[2] # 0

NumAdd(a, b) ==
    IF IsNaN(a) \/ IsNaN(b) THEN NotANumber
    ELSE IF ~IsFinite(a) /\ ~IsFinite(b)
         THEN (IF a = b THEN a ELSE NotANumber)
    ELSE IF ~IsFinite(a) THEN a
    ELSE IF ~IsFinite(b) THEN b
    ELSE Norm(a[1] * b[2] + b[1] * a[2], a[2] * b[2])

NumNeg(a) == <<-a[1], a[2]>>

NumSub(a, b) == NumAdd(a, NumNeg(b))

NumMul(a, b) ==
    IF IsNaN(a) \/ IsNaN(b) THEN NotANumber
    ELSE IF ~IsFinite(a) \/ ~IsFinite(b) THEN <<Sign(a[1]) * Sign(b[1]), 0>>
    ELSE Norm(a[1] * b[1], a[2] * b[2])

NumDiv(a, b) ==
    IF IsNaN(a) \/ IsNaN(b) THEN NotANumber
    ELSE IF ~IsFinite(a) /\ ~IsFinite(b) THEN NotANumber
    ELSE IF ~IsFinite(b) THEN Num(0)
    ELSE IF ~IsFinite(a) THEN <<a[1] * (IF b[1] < 0 THEN -1 ELSE 1), 0>>
    ELSE Norm(a[1] * b[2], a[2] * b[1])

NumLt(a, b) ==
    /\ ~IsNaN(a) /\ ~IsNaN(b)
    /\ a # b
    /\ IF ~IsFinite(a) THEN a[1] < 0
       ELSE IF ~IsFinite(b) THEN b[1] > 0
       ELSE a[1] * b[2] < b[1] * a[2]

NumLe(a, b) == ~IsNaN(a) /\ ~IsNaN(b) /\ (a = b \/ NumLt(a, b))

(* parseFloat(x.toFixed(2)): the nearest multiple of 0.01, ties away from  *)
(* zero; non-finite values print as 'Infinity' / 'NaN' and parse back.     *)
ToFixed2(a) ==
    IF ~IsFinite(a) THEN a
    ELSE Norm(Sign(a[1]) * ((2 * 100 * Abs(a[1]) + a[2]) \div (2 * a[2])), 100)

(* --------------------------- unit conversions ------------------------- *)

ftToATA(feet) == NumAdd(Num(1), NumDiv(feet, Num(33)))

ataToFT(ata) == NumMul(NumSub(ata, Num(1)), Num(33))

percentToDecimal(percent) == NumDiv(percent, Num(100))

(* ------------------------------- nitrox ------------------------------- *)

AirN2Fraction == Norm(79, 100)

calculateEAD(depth, o2Percentage) ==
    LET n2Fraction == NumDiv(NumSub(Num(100), o2Percentage), Num(100))
    IN  NumSub(NumMul(NumAdd(depth, Num(10)),
                      NumDiv(n2Fraction, AirN2Fraction)),
               Num(10))

calculateActualDepthFromEAD_NoOffset(ead, o2Percentage) ==
    NumDiv(NumMul(NumAdd(ead, Num(10)), AirN2Fraction),
           NumSub(Num(1), NumDiv(o2Percentage, Num(100))))

calculateActualDepthFromEAD(ead, o2Percentage) ==
    NumSub(NumDiv(NumMul(NumAdd(ead, Num(10)), AirN2Fraction),
                  NumSub(Num(1), NumDiv(o2Percentage, Num(100)))),
           Num(10))

DefaultPO2Limit == Norm(14, 10)

calculateMOD(o2Percentage, pO2Limit) ==
    LET o2Fraction == NumDiv(o2Percentage, Num(100))
        pressure == NumDiv(pO2Limit, o2Fraction)
    IN  ataToFT(pressure)

(* -------------------------- Dalton's triangle ------------------------- *)

DaltonError ==
    [error |-> "Invalid input combination. Provide exactly 2 of the 3 values: depth, fO2, pO2"]

Case1_NoAbsenceTest(inputs) ==
    inputs.depth # Undefined /\ inputs.fO2 # Undefined

Case1(inputs) ==
    inputs.depth # Undefined /\ inputs.fO2 # Undefined /\ inputs.pO2 = Undefined

Case2(inputs) ==
    inputs.fO2 # Undefined /\ inputs.pO2 # Undefined /\ inputs.depth = Undefined

Case3(inputs) ==
    inputs.depth # Undefined /\ inputs.pO2 # Undefined /\ inputs.fO2 = Undefined

FormatResult_OneDecimal(result) ==
    [key \in DOMAIN result |->
        IF IsFinite(result[key])
        THEN Norm(ToFixed2(NumDiv(result[key], Num(10)))[1] * 10,
                  ToFixed2(NumDiv(result[key], Num(10)))[2])
        ELSE result[key]]

FormatResult(result) == [key \in DOMAIN result |-> ToFixed2(result[key])]

calculateDaltonsTriangle(inputs) ==
    IF Case1(inputs)
    THEN LET pressure == ftToATA(inputs.depth)
             pO2 == NumMul(pressure, inputs.fO2)
             pN2 == NumMul(pressure, NumSub(Num(1), inputs.fO2))
         IN  FormatResult([depth |-> inputs.depth, fO2 |-> inputs.fO2,
                           pressure |-> pressure, pO2 |-> pO2, pN2 |-> pN2])
    ELSE IF Case2(inputs)
    THEN LET pressure == NumDiv(inputs.pO2, inputs.fO2)
             depth == ataToFT(pressure)
             pN2 == NumMul(pressure, NumSub(Num(1), inputs.fO2))
         IN  FormatResult([depth |-> depth, fO2 |-> inputs.fO2,
                           pressure |-> pressure, pO2 |-> inputs.pO2,
                           pN2 |-> pN2])
    ELSE IF Case3(inputs)
    THEN LET pressure == ftToATA(inputs.depth)
             fO2 == NumDiv(inputs.pO2, pressure)
             pN2 == NumMul(pressure, NumSub(Num(1), fO2))
         IN  FormatResult([depth |-> inputs.depth, fO2 |-> fO2,
                           pressure |-> pressure, pO2 |-> inputs.pO2,
                           pN2 |-> pN2])
    ELSE DaltonError

(* ------------------------------ dive state ---------------------------- *)

NoNumber == <<"null">>

MathRound(a) ==
    IF ~IsFinite(a) THEN a ELSE Num((2 * a[1] + a[2]) \div (2 * a[2]))

MathAbs(a) == <<Abs(a[1]), a[2]>>

FalsyNumber(a) == a \in {NoNumber, Undefined, Num(0), NotANumber}

StrictEq(a, b) == ~IsNaN(a) /\ ~IsNaN(b) /\ a = b

InitialDiveState ==
    [selectedDepth |-> NoNumber,
     selectedAirDepth |-> Undefined,
     selectedBottomTime |-> NoNumber,
     selectedPressureGroup |-> Null,
     selectedSurfaceInterval |-> NullTime,
     newPressureGroup |-> Null,
     targetDepth |-> NoNumber,
     targetPressureGroup |-> Null,
     targetAirDepth |-> Undefined,
     nitroxO2 |-> 21,
     isNitroxMode |-> FALSE,
     mod |-> calculateMOD(Num(21), DefaultPO2Limit)]

ClearedSelection(state) ==
    [state EXCEPT !.selectedBottomTime = NoNumber,
                  !.selectedPressureGroup = Null,
                  !.selectedSurfaceInterval = NullTime,
                  !.newPressureGroup = Null,
                  !.targetDepth = NoNumber,
                  !.targetPressureGroup = Null]

NitroxDepthOf(d) ==
    MathRound(calculateActualDepthFromEAD(Num(d), Num(diveState.nitroxO2)))

RECURSIVE FindMatchingAirDepth(_, _, _)
FindMatchingAirDepth(depths, actualDepth, i) ==
    IF i > Len(depths) THEN NoNumber
    ELSE IF StrictEq(NitroxDepthOf(depths[i]), MathRound(actualDepth))
         THEN Num(depths[i])
         ELSE FindMatchingAirDepth(depths, actualDepth, i + 1)

RECURSIVE FindNearestAirDepth(_, _, _, _)
FindNearestAirDepth(depths, depth, i, best) ==
    IF i > Len(depths) THEN best
    ELSE LET nitroxDepth == NitroxDepthOf(depths[i])
             diff == MathAbs(NumSub(nitroxDepth, MathRound(depth)))
         IN  IF NumLt(diff, best.minDiff)
             THEN FindNearestAirDepth(depths, depth, i + 1,
                      [minDiff |-> diff, airDepth |-> Num(depths[i]),
                       actualDepth |-> nitroxDepth])
             ELSE FindNearestAirDepth(depths, depth, i + 1, best)

NitroxSelection(depth) ==
    LET matched == FindMatchingAirDepth(Table1Depths, depth, 1)
    IN  IF matched # NoNumber
        THEN [minDiff |-> Infinity, airDepth |-> matched, actualDepth |-> depth]
        ELSE FindNearestAirDepth(Table1Depths, depth, 1,
                 [minDiff |-> Infinity, airDepth |-> NoNumber,
                  actualDepth |-> depth])

(* ------------------------------- inputs ------------------------------- *)

Depths == 0..MaxDepth

BottomTimes == 0..MaxBottomTime

SurfaceIntervals == {<<h, m>> : h \in 0..MaxHours, m \in 0..59}

GroupInputs == GroupSet \cup {"L"}

IntervalGroupInputs == GroupInputs \cup {"", Null, "None"}

ActualTimes == 0..MaxActualTenths

ResidualTimes == {NL} \cup {5 * k : k \in 0..(2 * MaxResidual + 1)}

O2Percentages == 0..MaxO2

DaltonDepths == {Undefined} \cup {Num(11 * k) : k \in 0..MaxDaltonSteps}

DaltonFO2s == {Undefined} \cup {percentToDecimal(Num(p)) : p \in O2Percentages}

DaltonPO2s == {Undefined} \cup {Norm(k, 10) : k \in 0..MaxPO2Tenths}

NitroxEntries == {NaN, 20, 21, 32, 36, 100, 101}

UiDepths == {0, 35, 70, 105, 140}

UiTable1Cells ==
    UNION {{navyTable1Data[d].timeGroups[i] :
               i \in DOMAIN navyTable1Data[d].timeGroups \cap (1..MaxUiGroups)} :
           d \in {SortedSeq(DOMAIN navyTable1Data)[r] : r \in 1..MaxUiRows}}

UiTable2Cells ==
    UNION {{<<navyTable2Data[groups[g]][i][1], navyTable2Data[groups[g]][i][2]>> :
               i \in DOMAIN navyTable2Data[groups[g]]} :
           g \in 1..MaxUiGroups}

FormBottomTimes == {0, 30, 400}

FormGroups == {"", "B", "L"}

FormIntervals == {<<0, 5>>, <<1, 0>>, <<12, 0>>}

FormActualTimes == {NaN, 200}

(* ------------------------------ behaviour ----------------------------- *)

NoCall == [op |-> "none"]

NoResult == [value |-> Null]

Init ==
    /\ pc = "ready"
    /\ call = NoCall
    /\ ret = NoResult
    /\ tables = InitialTables
    /\ diveState = InitialDiveState
    /\ table3Listeners = "populateTable3"

CallFindClosestDepth ==
    /\ pc = "ready"
    /\ \E depth \in Depths :
          /\ call' = [op |-> "findClosestDepth", depth |-> depth]
          /\ ret' = [depth |-> findClosestDepth(depth)]
    /\ pc' = "done"
    /\ UNCHANGED <<tables, diveState, table3Listeners>>

CallGetSingleDiveInfo ==
    /\ pc = "ready"
    /\ \E depth \in Depths, bottomTime \in BottomTimes :
          /\ call' = [op |-> "getSingleDiveInfo", depth |-> depth,
                      bottomTime |-> bottomTime]
          /\ ret' = getSingleDiveInfo(depth, bottomTime)
    /\ pc' = "done"
    /\ UNCHANGED <<tables, diveState, table3Listeners>>

CallGetNewPressureGroup ==
    /\ pc = "ready"
    /\ \E currentGroup \in GroupInputs, surfaceInterval \in SurfaceIntervals :
          /\ call' = [op |-> "getNewPressureGroup",
                      currentGroup |-> currentGroup,
                      surfaceInterval |-> surfaceInterval]
          /\ ret' = [value |-> getNewPressureGroup(currentGroup, surfaceInterval)]
    /\ pc' = "done"
    /\ UNCHANGED <<tables, diveState, table3Listeners>>

CallGetRepetitiveDiveInfo ==
    /\ pc = "ready"
    /\ \E pressureGroup \in GroupInputs, depth \in Depths :
          /\ call' = [op |-> "getRepetitiveDiveInfo",
                      pressureGroup |-> pressureGroup, depth |-> depth]
          /\ ret' = getRepetitiveDiveInfo(pressureGroup, depth)
    /\ pc' = "done"
    /\ UNCHANGED <<tables, diveState, table3Listeners>>

CallGetFinalPressureGroup ==
    /\ pc = "ready"
    /\ \E depth \in Depths, actualBottomTime \in ActualTimes,
          residualNitrogenTime \in ResidualTimes :
          /\ call' = [op |-> "getFinalPressureGroup", depth |-> depth,
                      actualBottomTime |-> actualBottomTime,
                      residualNitrogenTime |-> residualNitrogenTime]
          /\ ret' = [value |-> getFinalPressureGroup(depth, actualBottomTime,
                                                      residualNitrogenTime)]
    /\ pc' = "done"
    /\ UNCHANGED <<tables, diveState, table3Listeners>>

CallCalculateMinimumSurfaceInterval ==
    /\ pc = "ready"
    /\ \E startGroup \in IntervalGroupInputs, targetGroup \in IntervalGroupInputs :
          /\ call' = [op |-> "calculateMinimumSurfaceInterval",
                      startGroup |-> startGroup, targetGroup |-> targetGroup]
          /\ ret' = [interval |->
                        calculateMinimumSurfaceInterval(startGroup, targetGroup)]
    /\ pc' = "done"
    /\ UNCHANGED <<tables, diveState, table3Listeners>>

CallCalculateEAD ==
    /\ pc = "ready"
    /\ \E depth \in Depths, o2Percentage \in O2Percentages :
          /\ call' = [op |-> "calculateEAD", depth |-> depth,
                      o2Percentage |-> o2Percentage]
          /\ ret' = [number |-> calculateEAD(Num(depth), Num(o2Percentage))]
    /\ pc' = "done"
    /\ UNCHANGED <<tables, diveState, table3Listeners>>

CallCalculateActualDepthFromEAD ==
    /\ pc = "ready"
    /\ \E ead \in Depths, o2Percentage \in O2Percentages :
          /\ call' = [op |-> "calculateActualDepthFromEAD", ead |-> ead,
                      o2Percentage |-> o2Percentage]
          /\ ret' = [number |-> calculateActualDepthFromEAD(Num(ead),
                                                            Num(o2Percentage))]
    /\ pc' = "done"
    /\ UNCHANGED <<tables, diveState, table3Listeners>>

CallCalculateMOD ==
    /\ pc = "ready"
    /\ \E o2Percentage \in O2Percentages :
          /\ call' = [op |-> "calculateMOD", o2Percentage |-> o2Percentage]
          /\ ret' = [number |-> calculateMOD(Num(o2Percentage), DefaultPO2Limit)]
    /\ pc' = "done"
    /\ UNCHANGED <<tables, diveState, table3Listeners>>

CallCalculateDaltonsTriangle ==
    /\ pc = "ready"
    /\ \E depth \in DaltonDepths, fO2 \in DaltonFO2s, pO2 \in DaltonPO2s :
          /\ call' = [op |-> "calculateDaltonsTriangle",
                      inputs |-> [depth |-> depth, fO2 |-> fO2, pO2 |-> pO2]]
          /\ ret' = calculateDaltonsTriangle([depth |-> depth, fO2 |-> fO2,
                                              pO2 |-> pO2])
    /\ pc' = "done"
    /\ UNCHANGED <<tables, diveState, table3Listeners>>

(* Click on 'Apply' in the Nitrox panel (applyNitroxBtn click handler).    *)
ApplyNitrox_RebuildTable ==
    /\ pc = "ready"
    /\ \E newO2 \in NitroxEntries :
          IF newO2 = NaN \/ newO2 < 21 \/ newO2 > 100
          THEN UNCHANGED <<diveState, tables>>
          ELSE /\ diveState' =
                    ClearedSelection(
                        [diveState EXCEPT
                            !.nitroxO2 = newO2,
                            !.isNitroxMode = newO2 > 21,
                            !.mod = calculateMOD(Num(newO2), DefaultPO2Limit),
                            !.selectedDepth = NoNumber])
               /\ tables' = [tables EXCEPT !.navyTable1 =
                     [d \in {b \in DOMAIN tables.navyTable1 :
                               ~NumLt(calculateMOD(Num(newO2), DefaultPO2Limit),
                                      Num(b))}
                        |-> tables.navyTable1[d]]]
    /\ UNCHANGED <<pc, call, ret, table3Listeners>>

RejectedEntry(newO2) == newO2 = NaN \/ newO2 < 21 \/ newO2 > 100

ApplyNitroxClick_NoLowerBound(newO2) ==
    /\ pc = "ready"
    /\ IF newO2 = NaN \/ newO2 > 100
       THEN UNCHANGED <<diveState, table3Listeners>>
       ELSE /\ diveState' =
                 ClearedSelection(
                     [diveState EXCEPT
                         !.nitroxO2 = newO2,
                         !.isNitroxMode = newO2 > 21,
                         !.mod = calculateMOD(Num(newO2), DefaultPO2Limit),
                         !.selectedDepth = NoNumber])
            /\ table3Listeners' = "setupTable3Interactions"
    /\ UNCHANGED <<pc, call, ret, tables>>

ApplyNitroxClick(newO2) ==
    /\ pc = "ready"
    /\ IF RejectedEntry(newO2)
       THEN UNCHANGED <<diveState, table3Listeners>>
       ELSE /\ diveState' =
                 ClearedSelection(
                     [diveState EXCEPT
                         !.nitroxO2 = newO2,
                         !.isNitroxMode = newO2 > 21,
                         !.mod = calculateMOD(Num(newO2), DefaultPO2Limit),
                         !.selectedDepth = NoNumber])
            /\ table3Listeners' = "setupTable3Interactions"
    /\ UNCHANGED <<pc, call, ret, tables>>

ApplyNitrox == \E newO2 \in NitroxEntries : ApplyNitroxClick(newO2)

(* The depth shown in the first cell of the row of air depth d (Tables 1   *)
(* and 3): the air depth itself, or in Nitrox mode the rounded actual      *)
(* depth whose equivalent air depth is d.                                  *)
RenderedDepth(d) == IF diveState.isNitroxMode THEN NitroxDepthOf(d) ELSE Num(d)

ExceedsMOD(d) == diveState.isNitroxMode /\ NumLt(diveState.mod, RenderedDepth(d))

isNarcosisRisk(depth) == NumLe(Num(100), depth)

UiTable1Rows ==
    {Table1Depths[i] : i \in (1..MaxUiRows) \cup {Len(Table1Depths)}}

(* A depth between two rendered Nitrox depths, just over the 32 % limit.   *)
OffGridDepth == 112

SelectableDepths ==
    {Num(depth) : depth \in UiDepths \cup {OffGridDepth}}
        \cup {RenderedDepth(d) : d \in UiTable1Rows}

selectDepth_NoModCheck(depth) ==
    IF diveState.isNitroxMode
    THEN LET sel == NitroxSelection(depth)
         IN  ClearedSelection(
                 [diveState EXCEPT !.selectedDepth = sel.actualDepth,
                                   !.selectedAirDepth = sel.airDepth])
    ELSE LET tableDepth == findClosestDepth(depth[1])
         IN  IF tableDepth = NoDepth
             THEN diveState
             ELSE ClearedSelection(
                      [diveState EXCEPT !.selectedDepth = Num(tableDepth),
                                        !.selectedAirDepth = Num(tableDepth)])

(* selectDepth(depth): the value of diveState when the function returns.   *)
selectDepth(depth) ==
    IF diveState.isNitroxMode
    THEN LET sel == NitroxSelection(depth)
         IN  IF NumLt(diveState.mod, sel.actualDepth)
             THEN diveState
             ELSE ClearedSelection(
                      [diveState EXCEPT !.selectedDepth = sel.actualDepth,
                                        !.selectedAirDepth = sel.airDepth])
    ELSE LET tableDepth == findClosestDepth(depth[1])
         IN  IF tableDepth = NoDepth
             THEN diveState
             ELSE ClearedSelection(
                      [diveState EXCEPT !.selectedDepth = Num(tableDepth),
                                        !.selectedAirDepth = Num(tableDepth)])

(* Click on a depth cell of Table 1, which calls selectDepth.              *)
SelectDepth ==
    /\ pc = "ready"
    /\ \E depth \in SelectableDepths : diveState' = selectDepth(depth)
    /\ UNCHANGED <<pc, call, ret, tables, table3Listeners>>

(* The same click with the call recorded: the argument and diveState as    *)
(* it was when selectDepth was entered.                                    *)
CallSelectDepth ==
    /\ pc = "ready"
    /\ \E depth \in SelectableDepths :
          /\ call' = [op |-> "selectDepth", depth |-> depth,
                      diveState |-> diveState]
          /\ diveState' = selectDepth(depth)
    /\ ret' = [result |-> "undefined"]
    /\ pc' = "done"
    /\ UNCHANGED <<tables, table3Listeners>>

(* Click on a time cell of Table 1, then selectBottomTime.                 *)
SelectBottomTime ==
    /\ pc = "ready"
    /\ \E cell \in UiTable1Cells :
          IF FalsyNumber(diveState.selectedDepth)
          THEN UNCHANGED diveState
          ELSE diveState' = [diveState EXCEPT
                                !.selectedBottomTime = Num(cell[1]),
                                !.selectedPressureGroup = cell[2]]
    /\ UNCHANGED <<pc, call, ret, tables, table3Listeners>>

(* Click on an interval cell of Table 2, then selectSurfaceInterval.       *)
SelectSurfaceInterval ==
    /\ pc = "ready"
    /\ \E cell \in UiTable2Cells :
          IF diveState.selectedPressureGroup \in {Null, ""}
          THEN UNCHANGED diveState
          ELSE LET newGroup == IF cell[1] = "None" THEN Null ELSE cell[1]
                   updated == [diveState EXCEPT
                                  !.selectedSurfaceInterval = cell[2],
                                  !.newPressureGroup = newGroup]
               IN  diveState' =
                      IF /\ updated.targetPressureGroup \notin {Null, ""}
                         /\ ~FalsyNumber(updated.targetDepth)
                      THEN [updated EXCEPT !.targetPressureGroup = Null,
                                           !.targetDepth = NoNumber]
                      ELSE updated
    /\ UNCHANGED <<pc, call, ret, tables, table3Listeners>>

Table3Depths == SortedSeq(DOMAIN navyTable3)

UiTable3Rows == {10, 90, 130}

UiTable3Groups == {"A", "K"}

Truthy(group) == group \notin {Null, ""}

(* The air depth of navyTable3 whose rendered Nitrox depth is nearest to   *)
(* the clicked depth (the first one on a tie).                             *)
NearestTable3AirDepth(depth) ==
    FindNearestAirDepth(Table3Depths, depth, 1,
        [minDiff |-> Infinity, airDepth |-> NoNumber,
         actualDepth |-> depth]).airDepth

(* A cell of Table 3 that shows an adjusted limit instead of '-'.          *)
ListedTable3Cell(d, group) ==
    /\ HasTable3Entry(d, group)
    /\ navyTable3[d][group][1] # NL
    /\ navyTable3[d][group][2] # 0

ClickTable3DepthCell_NoModCheck(d, proceed) ==
    /\ pc = "ready"
    /\ IF table3Listeners = "populateTable3"
       THEN IF (isNarcosisRisk(Num(d)) /\ ~proceed)
               \/ ~Truthy(diveState.newPressureGroup)
            THEN UNCHANGED diveState
            ELSE diveState' = [diveState EXCEPT !.selectedDepth = Num(d),
                                                !.targetDepth = Num(d)]
       ELSE LET clickedDepth == RenderedDepth(d)
                airDepth == IF diveState.isNitroxMode
                            THEN NearestTable3AirDepth(clickedDepth)
                            ELSE clickedDepth
            IN  diveState' =
                        [diveState EXCEPT
                            !.selectedAirDepth = airDepth,
                            !.selectedDepth = clickedDepth,
                            !.targetDepth =
                                IF Truthy(diveState.newPressureGroup)
                                THEN clickedDepth ELSE @]
    /\ UNCHANGED <<pc, call, ret, tables, table3Listeners>>

(* Click on the depth cell of the row of air depth d in Table 3; proceed   *)
(* is the user's answer to the narcosis confirmation.                      *)
ClickTable3DepthCell(d, proceed) ==
    /\ pc = "ready"
    /\ IF table3Listeners = "populateTable3"
       THEN IF (isNarcosisRisk(Num(d)) /\ ~proceed)
               \/ ~Truthy(diveState.newPressureGroup)
            THEN UNCHANGED diveState
            ELSE diveState' = [diveState EXCEPT !.selectedDepth = Num(d),
                                                !.targetDepth = Num(d)]
       ELSE LET clickedDepth == RenderedDepth(d)
                airDepth == IF diveState.isNitroxMode
                            THEN NearestTable3AirDepth(clickedDepth)
                            ELSE clickedDepth
            IN  IF ExceedsMOD(d)
                   \/ (diveState.isNitroxMode
                          /\ NumLt(diveState.mod, clickedDepth))
                THEN UNCHANGED diveState
                ELSE diveState' =
                        [diveState EXCEPT
                            !.selectedAirDepth = airDepth,
                            !.selectedDepth = clickedDepth,
                            !.targetDepth =
                                IF Truthy(diveState.newPressureGroup)
                                THEN clickedDepth ELSE @]
    /\ UNCHANGED <<pc, call, ret, tables, table3Listeners>>

ClickTable3Depth ==
    \E d \in UiTable3Rows, proceed \in BOOLEAN : ClickTable3DepthCell(d, proceed)

(* Click on the cell of group and air depth d in Table 3.                  *)
ClickTable3CellAt(d, group) ==
    /\ pc = "ready"
    /\ IF table3Listeners = "populateTable3"
       THEN IF ListedTable3Cell(d, group) /\ ~isNarcosisRisk(Num(d))
            THEN diveState' = [diveState EXCEPT
                                  !.targetPressureGroup = group,
                                  !.targetDepth = Num(d)]
            ELSE UNCHANGED diveState
       ELSE IF ListedTable3Cell(d, group) /\ ~ExceedsMOD(d)
            THEN LET depth == RenderedDepth(d)
                 IN  diveState' =
                        [diveState EXCEPT
                            !.targetPressureGroup = group,
                            !.targetDepth = depth,
                            !.targetAirDepth =
                                IF diveState.isNitroxMode
                                THEN NearestTable3AirDepth(depth)
                                ELSE depth]
            ELSE UNCHANGED diveState
    /\ UNCHANGED <<pc, call, ret, tables, table3Listeners>>

ClickTable3Cell ==
    \E d \in UiTable3Rows, group \in UiTable3Groups : ClickTable3CellAt(d, group)

(* Click on 'Calculate' for a single dive (calculateBottomTimeBtn).        *)
ClickCalculateBottomTime ==
    /\ pc = "ready"
    /\ \E depth \in UiDepths \cup {NaN}, bottomTime \in FormBottomTimes :
          IF depth = NaN
          THEN UNCHANGED <<pc, call, ret>>
          ELSE /\ call' = [op |-> "getSingleDiveInfo", depth |-> depth,
                           bottomTime |-> bottomTime]
               /\ ret' = getSingleDiveInfo(depth, bottomTime)
               /\ pc' = "done"
    /\ UNCHANGED <<tables, diveState, table3Listeners>>

(* Click on 'Calculate' for a repetitive dive (calculateRepetitiveBtn).    *)
ClickCalculateRepetitive ==
    /\ pc = "ready"
    /\ \E depth \in UiDepths \cup {NaN}, pressureGroup \in FormGroups,
          surfaceInterval \in FormIntervals,
          actualBottomTime \in FormActualTimes :
          IF depth = NaN \/ pressureGroup = ""
          THEN UNCHANGED <<pc, call, ret>>
          ELSE LET newGroup == getNewPressureGroup(pressureGroup, surfaceInterval)
                   repetitiveInfo == getRepetitiveDiveInfo(newGroup, depth)
               IN  /\ call' = [op |-> "calculateRepetitive", depth |-> depth,
                               pressureGroup |-> pressureGroup,
                               surfaceInterval |-> surfaceInterval,
                               actualBottomTime |-> actualBottomTime]
                   /\ ret' =
                        IF newGroup = Null
                        THEN [newGroup |-> Null]
                        ELSE IF repetitiveInfo.isExceeded \/ actualBottomTime = NaN
                        THEN [newGroup |-> newGroup,
                              repetitiveInfo |-> repetitiveInfo]
                        ELSE [newGroup |-> newGroup,
                              repetitiveInfo |-> repetitiveInfo,
                              finalGroup |->
                                 getFinalPressureGroup(depth, actualBottomTime,
                                     10 * repetitiveInfo.residualNitrogenTime)]
                   /\ pc' = "done"
    /\ UNCHANGED <<tables, diveState, table3Listeners>>

Return ==
    /\ pc = "done"
    /\ pc' = "ready"
    /\ call' = NoCall
    /\ ret' = NoResult
    /\ UNCHANGED <<tables, diveState, table3Listeners>>

Next ==
    \/ CallFindClosestDepth
    \/ CallCalculateMinimumSurfaceInterval
    \/ CallGetRepetitiveDiveInfo
    \/ CallGetNewPressureGroup
    \/ CallGetSingleDiveInfo
    \/ CallGetFinalPressureGroup
    \/ Return

Spec == Init /\ [][Next]_vars

NextGas ==
    \/ CallCalculateEAD
    \/ CallCalculateActualDepthFromEAD
    \/ CallCalculateMOD
    \/ CallCalculateDaltonsTriangle
    \/ Return

SpecGas == Init /\ [][NextGas]_vars

NextUI ==
    \/ ApplyNitrox
    \/ SelectDepth
    \/ SelectBottomTime
    \/ SelectSurfaceInterval
    \/ ClickCalculateBottomTime
    \/ ClickCalculateRepetitive
    \/ CallCalculateMinimumSurfaceInterval
    \/ Return

SpecUI == Init /\ [][NextUI]_vars

(* The interactive tables alone: the clicks of the guided flow.            *)
NextFlow ==
    \/ ApplyNitrox
    \/ CallSelectDepth
    \/ SelectBottomTime
    \/ SelectSurfaceInterval
    \/ ClickTable3Depth
    \/ ClickTable3Cell
    \/ Return

SpecFlow == Init /\ [][NextFlow]_vars

Returned(op) == pc = "done" /\ call.op = op

(* ------------------------------- claims ------------------------------- *)

Minutes(t) == t[1] * 60 + t[2]

MatchingRanges(currentGroup, surfaceInterval) ==
    {i \in 1..Len(navyTable2[currentGroup]) :
        InRange(parseTimeToMinutes(surfaceInterval),
                navyTable2[currentGroup][i][2], navyTable2[currentGroup][i][3])}

(* C1: for every current group in A..K and every elapsed time of at least  *)
(* 10 minutes, the surface interval handed to getNewPressureGroup matches  *)
(* exactly one range of navyTable2[currentGroup].                          *)
C1_ExactlyOneRange ==
    (/\ Returned("getNewPressureGroup")
     /\ call.currentGroup \in GroupSet
     /\ Minutes(call.surfaceInterval) >= 10)
    => Cardinality(MatchingRanges(call.currentGroup, call.surfaceInterval)) = 1

(* C2: for every range [min, max] -> T listed for the start group,         *)
(* getNewPressureGroup returns T (null for 'None') for every time from min *)
(* through the listed max inclusive.                                       *)
C2_ListedRangeGivesTarget ==
    (/\ Returned("getNewPressureGroup")
     /\ call.currentGroup \in GroupSet)
    => \A i \in 1..Len(navyTable2[call.currentGroup]) :
          LET e == navyTable2[call.currentGroup][i]
              t == Minutes(call.surfaceInterval)
          IN  (/\ t >= Minutes(e[2])
               /\ (e[3] = Dash \/ t <= Minutes(e[3])))
              => ret.value = (IF e[1] = "None" THEN Null ELSE e[1])

(* The group listed for the smallest threshold of the band that is >= t. *)
GroupOfSmallestThreshold(band, t) ==
    LET tg == navyTable1[band].timeGroups
        S == {i \in 1..Len(tg) : tg[i][1] >= t}
    IN  IF S = {} THEN Null
        ELSE tg[CHOOSE i \in S : \A j \in S : tg[i][1] <= tg[j][1]][2]

(* C3: for depth <= 130 and bottom time t >= 1, getSingleDiveInfo reports  *)
(* isExceeded with a null group exactly when t is over the NDL of the      *)
(* normalised band; otherwise it returns that NDL and the group of the     *)
(* smallest threshold >= t, which is never null.                           *)
C3_SingleDiveGroup ==
    (/\ Returned("getSingleDiveInfo")
     /\ call.depth <= 130
     /\ call.bottomTime >= 1)
    => LET band == findClosestDepth(call.depth)
           ndl == navyTable1[band].maxNDL
       IN  /\ ret.isExceeded <=> call.bottomTime > ndl
           /\ ret.isExceeded => ret.pressureGroup = Null
           /\ ~ret.isExceeded =>
                 /\ ret.noDecoLimit = ndl
                 /\ ret.pressureGroup =
                        GroupOfSmallestThreshold(band, call.bottomTime)
                 /\ ret.pressureGroup \in GroupSet

C3_Witness ==
    /\ Returned("getSingleDiveInfo")
    /\ call.depth = 60 /\ call.bottomTime = 50
    /\ ret.noDecoLimit = 50 /\ ret.pressureGroup = "H" /\ ~ret.isExceeded

(* C4: for every depth <= 130, getSingleDiveInfo(depth, 0) returns a null  *)
(* pressure group.                                                         *)
C4_ZeroTimeNoGroup ==
    (/\ Returned("getSingleDiveInfo")
     /\ call.depth <= 130
     /\ call.bottomTime = 0)
    => ret.pressureGroup = Null

Trunc(x) == x \div 10

(* C5: for every depth and numeric times a and r, getFinalPressureGroup    *)
(* equals the group of getSingleDiveInfo(depth, trunc(a) + trunc(r)) and   *)
(* is null whenever that single dive exceeds limits.                       *)
C5_FinalGroupIsSingleDive ==
    (/\ Returned("getFinalPressureGroup")
     /\ call.residualNitrogenTime # NL)
    => LET single == getSingleDiveInfo(call.depth,
                        Trunc(call.actualBottomTime)
                          + Trunc(call.residualNitrogenTime))
       IN  /\ ret.value = single.pressureGroup
           /\ single.isExceeded => ret.value = Null

CalledEntry == navyTable3[findClosestDepth(call.depth)][call.pressureGroup]

HasCalledEntry ==
    /\ Returned("getRepetitiveDiveInfo")
    /\ HasTable3Entry(findClosestDepth(call.depth), call.pressureGroup)

(* C6 as stated: every table-3 entry (here the one the call looked up)     *)
(* whose residual nitrogen time is 'N/L' has adjusted no-decompression     *)
(* limit 0.                                                                *)
C6_Original ==
    HasCalledEntry => (CalledEntry[1] = NL => CalledEntry[2] = 0)

(* C6 amended: every table-3 entry whose residual nitrogen time is 'N/L'   *)
(* has adjusted limit 0 at the bands from 30 ft on, and the string 'N/L'   *)
(* at the 10 and 20 ft bands.                                              *)
C6_NotAllowedLimit ==
    HasCalledEntry
    => (CalledEntry[1] = NL
        => CalledEntry[2] =
              (IF findClosestDepth(call.depth) \in {10, 20} THEN NL ELSE 0))

C6_Witness ==
    /\ Returned("getRepetitiveDiveInfo")
    /\ call.pressureGroup = "E" /\ call.depth = 10
    /\ ret.residualNitrogenTime = NL /\ ret.adjustedNoDecoLimit = NL

(* C7 as stated: whenever getRepetitiveDiveInfo returns isExceeded=false,  *)
(* the residual nitrogen time is a number and the adjusted limit is a      *)
(* positive number.                                                        *)
C7_Original ==
    (/\ Returned("getRepetitiveDiveInfo")
     /\ call.pressureGroup \in GroupSet
     /\ call.depth <= 130
     /\ ~ret.isExceeded)
    => /\ ret.residualNitrogenTime >= 0
       /\ ret.adjustedNoDecoLimit > 0

(* C7 amended: whenever getRepetitiveDiveInfo returns isExceeded=false,    *)
(* the residual nitrogen time is a number of minutes and the adjusted      *)
(* limit is a positive number of minutes or, at the 10 and 20 ft bands     *)
(* only, the 'N/L' string; it is never null or 0.                          *)
C7_NotExceededValues ==
    (/\ Returned("getRepetitiveDiveInfo")
     /\ call.pressureGroup \in GroupSet
     /\ call.depth <= 130
     /\ ~ret.isExceeded)
    => /\ ret.residualNitrogenTime >= 0
       /\ \/ ret.adjustedNoDecoLimit > 0
          \/ /\ ret.adjustedNoDecoLimit = NL
             /\ findClosestDepth(call.depth) \in {10, 20}

C7_Witness ==
    /\ Returned("getRepetitiveDiveInfo")
    /\ call.pressureGroup = "A" /\ call.depth = 10
    /\ ~ret.isExceeded
    /\ ret.residualNitrogenTime = 39 /\ ret.adjustedNoDecoLimit = NL

(* C8: navyTable3 has an entry for every depth band of navyTable1 other    *)
(* than 15 (here the band the call normalised to) and every group, so      *)
(* getRepetitiveDiveInfo returns the invalid                               *)
(* depth/group result only when depth > 130, the normalised band is 15 or  *)
(* the group is not in A..K.                                               *)
C8_InvalidOnlyOutsideTable ==
    Returned("getRepetitiveDiveInfo")
    => LET band == findClosestDepth(call.depth)
       IN  /\ (/\ band \in DOMAIN navyTable1 \ {15}
               /\ call.pressureGroup \in GroupSet)
              => HasTable3Entry(band, call.pressureGroup)
           /\ ret.message = "invalid"
                 => \/ call.depth > 130
                    \/ band = 15
                    \/ call.pressureGroup \notin GroupSet

(* C9: in the depth band of every single-dive lookup the thresholds are    *)
(* strictly increasing, their groups strictly increase in severity, and    *)
(* the last threshold is at most the band's maxNoDecoLimit.                *)
C9_BandWellFormed ==
    (/\ Returned("getSingleDiveInfo")
     /\ call.depth <= 130)
    => LET band == navyTable1[findClosestDepth(call.depth)]
           tg == band.timeGroups
       IN  /\ \A i \in 1..(Len(tg) - 1) :
                 /\ tg[i][1] < tg[i + 1][1]
                 /\ Severity(tg[i][2]) < Severity(tg[i + 1][2])
           /\ tg[Len(tg)][1] <= band.maxNDL

(* C10: for a group in A..K and a depth <= 130 whose band has a table-3    *)
(* entry, getRepetitiveDiveInfo returns isExceeded=true exactly when the   *)
(* entry's residual time is 'N/L' or its adjusted limit is 0, and in both  *)
(* cases returns the two table values.                                     *)
C10_RepetitiveLookup ==
    (/\ Returned("getRepetitiveDiveInfo")
     /\ call.pressureGroup \in GroupSet
     /\ call.depth <= 130
     /\ findClosestDepth(call.depth) \in DOMAIN navyTable3)
    => LET e == navyTable3[findClosestDepth(call.depth)][call.pressureGroup]
       IN  /\ ret.isExceeded <=> (e[1] = NL \/ e[2] = 0)
           /\ ret.residualNitrogenTime = e[1]
           /\ ret.adjustedNoDecoLimit = e[2]

C10_Witness ==
    /\ Returned("getRepetitiveDiveInfo")
    /\ call.pressureGroup = "D" /\ call.depth = 30
    /\ ~ret.isExceeded
    /\ ret.residualNitrogenTime = 54 /\ ret.adjustedNoDecoLimit = 151

(* Severity of an outcome of getNewPressureGroup: null ('None') is the    *)
(* least severe, then A < B < ... < K.                                     *)
GroupRank(g) == IF g \in GroupSet THEN Severity(g) ELSE 0

(* C11: for every current group in A..K the result of getNewPressureGroup  *)
(* is non-increasing in severity as the surface interval grows from 0:10:  *)
(* the result at t is never more severe than the result at an earlier t1.  *)
C11_NonIncreasingInTime ==
    (/\ Returned("getNewPressureGroup")
     /\ call.currentGroup \in GroupSet
     /\ Minutes(call.surfaceInterval) >= 10)
    => \A t1 \in SurfaceIntervals :
          (Minutes(t1) >= 10 /\ Minutes(t1) < Minutes(call.surfaceInterval))
          => GroupRank(ret.value)
                <= GroupRank(getNewPressureGroup(call.currentGroup, t1))

(* Severity of an outcome of getSingleDiveInfo: exceeded is more severe   *)
(* than any group, a null group without exceeded the least severe.         *)
OutcomeRank(r) == IF r.isExceeded THEN Len(groups) + 1 ELSE GroupRank(r.pressureGroup)

(* C12: for every depth <= 130 and bottom times t1 < t2 the outcome of     *)
(* getSingleDiveInfo at t2 is never less severe than at t1: once exceeded  *)
(* it stays exceeded, and a group never moves to an earlier letter.        *)
(* Stated for t1 = t2 - 1 at every bottom time t2 >= 1; over whole minutes *)
(* that is the same as for every pair t1 < t2.                             *)
C12_MonotoneInBottomTime ==
    (/\ Returned("getSingleDiveInfo")
     /\ call.depth <= 130
     /\ call.bottomTime >= 1)
    => OutcomeRank(getSingleDiveInfo(call.depth, call.bottomTime - 1))
          <= OutcomeRank(ret)

C12_Witness ==
    /\ Returned("getSingleDiveInfo")
    /\ call.depth = 60 /\ call.bottomTime = 51
    /\ ret.isExceeded
    /\ getSingleDiveInfo(60, 50).pressureGroup = "H"
    /\ getSingleDiveInfo(60, 10).pressureGroup = "B"

(* C13: findClosestDepth(d) is the smallest table-1 depth band >= d for    *)
(* 10 <= d <= 130, is 10 for every d < 10 and the out-of-range marker -1   *)
(* for every d > 130; getSingleDiveInfo then reports isExceeded with a     *)
(* null group for every depth > 130.                                       *)
C13_ClosestDepth ==
    /\ Returned("findClosestDepth")
       => LET d == call.depth
              bands == DOMAIN navyTable1Data
          IN  /\ (d >= 10 /\ d <= 130)
                 => /\ ret.depth \in bands
                    /\ ret.depth >= d
                    /\ \A b \in bands : b >= d => ret.depth <= b
              /\ d < 10 => ret.depth = 10
              /\ d > 130 => ret.depth = -1
    /\ (Returned("getSingleDiveInfo") /\ call.depth > 130)
       => (ret.isExceeded /\ ret.pressureGroup = Null)

C13_Witness ==
    /\ Returned("findClosestDepth")
    /\ call.depth = 41
    /\ ret.depth = 50

(* The minimum bound listed in the table literal for start -> target. *)
ListedMinimum(startGroup, targetGroup) ==
    LET row == navyTable2Data[startGroup]
        S == {i \in 1..Len(row) : row[i][1] = targetGroup}
    IN  IF S = {} THEN NullTime ELSE row[CHOOSE i \in S : TRUE][2]

C15_InvalidGroupTellsApart ==
    (/\ Returned("getNewPressureGroup")
     /\ call.currentGroup \notin GroupSet)
    => \A g \in GroupSet : \A t \in SurfaceIntervals :
          Minutes(t) >= 12 * 60 => ret.value # getNewPressureGroup(g, t)

(* C16: for every current group in A..K and every elapsed time,            *)
(* getNewPressureGroup returns null or a group of A..K that is equal to or *)
(* less severe than the current group.                                     *)
C16_NeverMoreSevere ==
    (/\ Returned("getNewPressureGroup")
     /\ call.currentGroup \in GroupSet)
    => \/ ret.value = Null
       \/ /\ ret.value \in GroupSet
          /\ Severity(ret.value) <= Severity(call.currentGroup)

C16_Witness ==
    /\ Returned("getNewPressureGroup")
    /\ call.currentGroup = "K" /\ call.surfaceInterval = <<0, 29>>
    /\ ret.value = "J"

(* C17: in navyTable2 the ranges of every starting group (here the row of  *)
(* the call's current group) run from the starting group down to A and     *)
(* then 'None', start at 0:10, and are contiguous and non-overlapping:     *)
(* each minimum is one minute after the listed maximum of the previous     *)
(* range; the last group range ends at 11:59 and the 'None' range starts   *)
(* at 12:00 and is unbounded.                                              *)
C17_RowTilesTimeline ==
    (/\ Returned("getNewPressureGroup")
     /\ call.currentGroup \in GroupSet)
    => LET row == navyTable2[call.currentGroup]
           n == Len(row)
           k == Severity(call.currentGroup)
       IN  /\ n = k + 1
           /\ \A i \in 1..(n - 1) :
                 /\ row[i][1] = groups[k - i + 1]
                 /\ row[i][3] # Dash
                 /\ Minutes(row[i][2]) <= Minutes(row[i][3])
           /\ row[1][2] = <<0, 10>>
           /\ \A i \in 2..n :
                 Minutes(row[i][2]) = Minutes(row[i - 1][3]) + 1
           /\ row[n - 1][3] = <<11, 59>>
           /\ row[n] = <<"None", <<12, 0>>, Dash>>

C17_Witness ==
    /\ Returned("getNewPressureGroup")
    /\ call.currentGroup = "K"
    /\ Len(navyTable2["K"]) = 12
    /\ navyTable2["K"][2] = <<"J", <<0, 29>>, <<0, 49>>>>

Failed(r) == "error" \in DOMAIN r

CalledGasFunction ==
    pc = "done" /\ call.op \in {"calculateEAD", "calculateActualDepthFromEAD",
                                "calculateMOD"}

(* C19: calculateEAD, calculateActualDepthFromEAD and calculateMOD fail    *)
(* with InvalidGasMix, and return no depth, whenever the O2 percent is     *)
(* outside [21, 100].                                                      *)
C19_RejectsInvalidGasMix ==
    (/\ CalledGasFunction
     /\ call.o2Percentage \notin 21..100)
    => /\ Failed(ret)
       /\ ret.error = "InvalidGasMix"

PresentCount(inputs) ==
    Cardinality({key \in {"depth", "fO2", "pO2"} : inputs[key] # Undefined})

(* C20: calculateDaltonsTriangle succeeds exactly when two of depth, fO2   *)
(* and pO2 are present and the third is absent; with zero, one or all      *)
(* three present it fails with the invalid-input-combination error.        *)
C20_ExactlyTwoInputs ==
    Returned("calculateDaltonsTriangle")
    => IF PresentCount(call.inputs) = 2
       THEN /\ ~Failed(ret)
            /\ DOMAIN ret = {"depth", "fO2", "pressure", "pO2", "pN2"}
       ELSE ret = DaltonError

C20_Witness ==
    /\ Returned("calculateDaltonsTriangle")
    /\ call.inputs = [depth |-> Num(99), fO2 |-> <<21, 100>>, pO2 |-> Undefined]
    /\ ret = [depth |-> Num(99), fO2 |-> <<21, 100>>, pressure |-> Num(4),
              pO2 |-> <<21, 25>>, pN2 |-> <<79, 25>>]

ResolverCallStep == pc = "ready" /\ pc' = "done"

(* C18: the resolvers do not touch the selection state and nothing writes  *)
(* the tables: after any sequence of resolver calls and UI actions         *)
(* (Apply Nitrox included) navyTable1, navyTable2 and navyTable3 hold      *)
(* their initial contents, and a step that calls resolvers leaves          *)
(* diveState as it was.                                                    *)
C18_TablesAreReadOnly ==
    /\ [](tables = InitialTables)
    /\ [][ResolverCallStep => diveState' = diveState]_vars

C18_Witness ==
    /\ pc = "done"
    /\ call.op = "calculateRepetitive"
    /\ "finalGroup" \in DOMAIN ret
    /\ diveState.nitroxO2 = 32
    /\ diveState.isNitroxMode
    /\ diveState.selectedPressureGroup # Null
    /\ tables = InitialTables

(* C21: calculateEAD and calculateActualDepthFromEAD are mutual inverses:  *)
(* for every depth in [0, 130] and O2 percent in [21, 50] the actual depth *)
(* computed from the equivalent air depth of d is d within 0.1 ft.         *)
C21_EadRoundTrip ==
    (/\ Returned("calculateEAD")
     /\ call.depth \in 0..130
     /\ call.o2Percentage \in 21..50)
    => LET back == calculateActualDepthFromEAD(ret.number,
                                               Num(call.o2Percentage))
       IN  NumLe(MathAbs(NumSub(back, Num(call.depth))), Norm(1, 10))

C21_Witness ==
    /\ Returned("calculateEAD")
    /\ call.depth = 100 /\ call.o2Percentage = 32
    /\ ret.number = Norm(110 * 68 - 790, 79)
    /\ calculateActualDepthFromEAD(ret.number, Num(32)) = Num(100)

ValidDepthAndFraction ==
    /\ Returned("calculateDaltonsTriangle")
    /\ Case1(call.inputs)
    /\ NumLe(Num(0), call.inputs.depth)
    /\ NumLe(Norm(21, 100), call.inputs.fO2)
    /\ NumLe(call.inputs.fO2, Num(1))

RoundTripDepth ==
    calculateDaltonsTriangle([depth |-> Undefined, fO2 |-> call.inputs.fO2,
                              pO2 |-> ret.pO2]).depth

RoundTripError == MathAbs(NumSub(RoundTripDepth, call.inputs.depth))

(* C22 as stated: deriving pO2 from (depth, fO2) and then depth from       *)
(* (fO2, pO2) returns the original depth within the tolerance of rounding  *)
(* to 2 decimal places, 0.01 ft.                                           *)
C22_Original ==
    ValidDepthAndFraction => NumLe(RoundTripError, Norm(1, 100))

(* C22 amended: the round trip returns the original depth within           *)
(* 0.165 / fO2 + 0.005 ft: the 0.005 ATA rounding of pO2 is divided by fO2 *)
(* and multiplied by 33 ft per ATA before the depth itself is rounded.     *)
C22_RoundTripWithinBound ==
    ValidDepthAndFraction
    => NumLe(RoundTripError,
             NumAdd(NumDiv(Norm(165, 1000), call.inputs.fO2), Norm(5, 1000)))

C22_Witness ==
    /\ Returned("calculateDaltonsTriangle")
    /\ call.inputs = [depth |-> Num(22), fO2 |-> Norm(32, 100), pO2 |-> Undefined]
    /\ ret.pO2 = Norm(53, 100)
    /\ RoundTripDepth = Norm(2166, 100)

(* C26: for a fixed bottom time t >= 1, getSingleDiveInfo is monotone in   *)
(* depth: for depths d1 < d2 <= 130 the outcome at d2 is never less severe *)
(* than at d1.  Stated for d1 = d2 - 1 at every depth d2 in 1..130; over   *)
(* whole feet that is the same as for every pair d1 < d2.                  *)
C26_MonotoneInDepth ==
    (/\ Returned("getSingleDiveInfo")
     /\ call.depth \in 1..130
     /\ call.bottomTime >= 1)
    => OutcomeRank(getSingleDiveInfo(call.depth - 1, call.bottomTime))
          <= OutcomeRank(ret)

AllowedTimes(andl) == IF andl = NL THEN {1} ELSE 1..andl

(* C27: whenever getRepetitiveDiveInfo(group, depth) reports isExceeded =  *)
(* false, getFinalPressureGroup(depth, t, residualNitrogenTime) is         *)
(* non-null for every actual bottom time t from 1 to the adjusted          *)
(* no-decompression limit (an 'N/L' limit allowing at least t = 1).        *)
C27_WithinAdjustedLimit ==
    (/\ Returned("getRepetitiveDiveInfo")
     /\ ~ret.isExceeded)
    => \A t \in AllowedTimes(ret.adjustedNoDecoLimit) :
          getFinalPressureGroup(call.depth, 10 * t,
                                10 * ret.residualNitrogenTime) # Null

OneMinuteLess(t) == IF t[2] = 0 THEN <<t[1] - 1, 59>> ELSE <<t[1], t[2] - 1>>

(* C28: for every start group S and every target group T of A..K equal to *)
(* or less severe than S, waiting exactly the minimum surface interval     *)
(* reaches T, and for T different from S waiting one minute less does not. *)
C28_MinimumIntervalReachesTarget ==
    (/\ Returned("calculateMinimumSurfaceInterval")
     /\ call.startGroup \in GroupSet
     /\ call.targetGroup \in GroupSet
     /\ Severity(call.targetGroup) <= Severity(call.startGroup))
    => /\ ret.interval # NullTime
       /\ getNewPressureGroup(call.startGroup, ret.interval) = call.targetGroup
       /\ call.targetGroup # call.startGroup
          => getNewPressureGroup(call.startGroup, OneMinuteLess(ret.interval))
                # call.targetGroup

C28_Witness ==
    /\ Returned("calculateMinimumSurfaceInterval")
    /\ call.startGroup = "K" /\ call.targetGroup = "A"
    /\ ret.interval = <<8, 59>>
    /\ getNewPressureGroup("K", <<8, 59>>) = "A"
    /\ getNewPressureGroup("K", <<8, 58>>) = Null

(* C25: after initialisation and any sequence of Apply Nitrox clicks with  *)
(* arbitrary input, nitroxO2 is an integer of 21..100, isNitroxMode holds  *)
(* exactly when nitroxO2 > 21, and mod is calculateMOD(nitroxO2); an Apply *)
(* click whose entry is not a number or lies outside 21..100 leaves every  *)
(* field of diveState as it was.                                           *)
NitroxFieldsConsistent ==
    /\ diveState.nitroxO2 \in 21..100
    /\ diveState.isNitroxMode = (diveState.nitroxO2 > 21)
    /\ diveState.mod = calculateMOD(Num(diveState.nitroxO2), DefaultPO2Limit)

RejectedApplyKeepsState ==
    \A newO2 \in NitroxEntries :
        (RejectedEntry(newO2) /\ ApplyNitroxClick(newO2))
            => diveState' = diveState

C23_GroupMatchesSelection ==
    diveState.selectedPressureGroup # Null
        => /\ diveState.selectedAirDepth \notin {Undefined, NoNumber}
           /\ diveState.selectedBottomTime # NoNumber
           /\ getSingleDiveInfo(diveState.selectedAirDepth[1],
                                diveState.selectedBottomTime[1]).pressureGroup
                 = diveState.selectedPressureGroup

(* C24: after any sequence of clicks, whenever newPressureGroup is set it  *)
(* is the group that getNewPressureGroup gives for the selected pressure   *)
(* group and the selected surface interval, and it is never more severe    *)
(* than the selected pressure group.                                       *)
C24_NewGroupFollowsInterval ==
    diveState.newPressureGroup # Null
        => /\ diveState.selectedPressureGroup # Null
           /\ diveState.selectedSurfaceInterval # NullTime
           /\ getNewPressureGroup(diveState.selectedPressureGroup,
                                  diveState.selectedSurfaceInterval)
                 = diveState.newPressureGroup
           /\ GroupRank(diveState.newPressureGroup)
                 <= GroupRank(diveState.selectedPressureGroup)

(* The depth is the text of a depth cell of Table 1 as currently rendered. *)
ShownInTable1(depth) ==
    \E d \in DOMAIN navyTable1 : StrictEq(RenderedDepth(d), depth)

(* diveState after an accepted selectDepth: the six selection fields are   *)
(* null and every other field but the two depths is as before.             *)
AcceptedDepth(before, selectedDepth, selectedAirDepth) ==
    [ClearedSelection(before) EXCEPT !.selectedDepth = selectedDepth,
                                     !.selectedAirDepth = selectedAirDepth]

SelectDepthEffect(before, depth, after) ==
    /\ after.nitroxO2 = before.nitroxO2
    /\ after.isNitroxMode = before.isNitroxMode
    /\ after.mod = before.mod
    /\ IF ~before.isNitroxMode
       THEN IF depth[1] > 130
            THEN after = before
            ELSE after = AcceptedDepth(before, Num(findClosestDepth(depth[1])),
                                       Num(findClosestDepth(depth[1])))
       ELSE IF ShownInTable1(depth)
            THEN IF NumLt(before.mod, depth)
                 THEN after = before
                 ELSE after = AcceptedDepth(before, depth, after.selectedAirDepth)
            ELSE \/ after = before
                 \/ /\ after = AcceptedDepth(before, after.selectedDepth,
                                             after.selectedAirDepth)
                    /\ after.selectedDepth # NoNumber
                    /\ NumLe(after.selectedDepth, before.mod)

(* C29: selectDepth(depth), when it accepts the depth, sets selectedDepth  *)
(* (in air mode to the normalised table depth, selectedAirDepth equal to   *)
(* it), resets selectedBottomTime, selectedPressureGroup,                  *)
(* selectedSurfaceInterval, newPressureGroup, targetDepth and              *)
(* targetPressureGroup to null and leaves nitroxO2, isNitroxMode and mod   *)
(* unchanged; when it rejects the depth (over 130 ft in air mode, over the *)
(* MOD in Nitrox mode) it leaves diveState entirely unchanged.             *)
C29_SelectDepthFrame ==
    Returned("selectDepth")
        => SelectDepthEffect(call.diveState, call.depth, diveState)

C29_Witness ==
    /\ Returned("selectDepth")
    /\ call.depth = Num(35)
    /\ call.diveState.selectedPressureGroup = "A"
    /\ call.diveState.targetPressureGroup = "A"
    /\ diveState.selectedDepth = Num(35)
    /\ diveState.selectedPressureGroup = Null
    /\ diveState.targetPressureGroup = Null

(* C30: after any sequence of Apply Nitrox clicks and clicks on the three  *)
(* tables, selectedDepth and targetDepth, when not null, never exceed      *)
(* diveState.mod, the maximum operating depth of the active gas mix.       *)
C30_DepthsWithinMod ==
    /\ diveState.selectedDepth # NoNumber
          => NumLe(diveState.selectedDepth, diveState.mod)
    /\ diveState.targetDepth # NoNumber
          => NumLe(diveState.targetDepth, diveState.mod)

C30_Witness ==
    /\ diveState.nitroxO2 = 32
    /\ diveState.selectedDepth = Num(106)
    /\ diveState.targetDepth = Num(106)
    /\ diveState.targetPressureGroup = "A"

=============================================================================
